---- MODULE Spec2Model ----
(***************************************************************************)
(* Model of src/修改版网页.py (generate_live_site): the scheduler loop of   *)
(* main(), the engagement counters it mutates, the three files it writes   *)
(* (access.log, comments_used.txt, index.html), the comment pool loaded at *)
(* startup and the address generator random_realistic_ipv4.                *)
(*                                                                         *)
(* One action per statement group of main(); pc is the position of the     *)
(* single thread of control.  Random draws are \E over the values the      *)
(* draw can return.  A file is the sequence of the lines appended to it;   *)
(* an access-log line is represented by its timestamp field (the address,  *)
(* user agent and referrer of the line are read by no later statement).    *)
(* A text line is a sequence of characters (one-character strings).        *)
(***************************************************************************)
EXTENDS Integers, Sequences, FiniteSets, TLC

VARIABLES
    pc,               \* position of the control thread in main()
    exc,              \* exception that ended main(): "None", "KeyboardInterrupt", "OSError"
    exc_at,           \* the pc at which that exception was raised ("none" while running)
    pool,             \* comment pool (line 173-175)
    likes, bookmarks, shares, comments_cnt,   \* counters (line 180)
    comments_render,  \* list of (human_t, user, content) (line 181)
    ts,               \* timestamp of the current tick: the number of ticks started (line 188)
    tick0,            \* history: counters and comment list when the current tick started
    trials,           \* history: outcomes of the four trials of the current tick
    access_log,       \* lines of site_out/access.log appended by this process
    cmts_used,        \* lines of site_out/comments_used.txt appended by this process
    index_html,       \* content of site_out/index.html
    renders,          \* history: number of completed writes of index.html
    wait,             \* pending suspension in seconds (line 219), 0 when none
    ip,               \* address returned by the last call of random_realistic_ipv4
    attempts          \* iterations of its while loop in the current call

engagement == <<likes, bookmarks, shares, comments_cnt, comments_render>>
files      == <<access_log, cmts_used, index_html, renders>>
ctl        == <<pc, exc, exc_at>>
ipvars     == <<ip, attempts>>
vars == <<pc, exc, exc_at, pool, likes, bookmarks, shares, comments_cnt,
          comments_render, ts, tick0, trials, access_log, cmts_used, index_html,
          renders, wait, ip, attempts>>

----------------------------------------------------------------------------
(* Bounds of the model *)

\* ticks the scheduler may start
MaxTicks == 2

\* iterations of the retry loop of random_realistic_ipv4 the model follows
MaxAttempts == 3

----------------------------------------------------------------------------
(* Text helpers: a line is a sequence of characters *)

Digits == {"0", "1", "2", "3", "4", "5", "6", "7", "8", "9"}
Whitespace == {" "}

\* re.sub(r"[0-9\.]", "", ln): drop every digit and every period
re_sub_digits_dots(ln) == SelectSeq(ln, LAMBDA c : c \notin Digits \cup {"."})

RECURSIVE lstrip(_)
lstrip(s) == IF s # <<>> /\ Head(s) \in Whitespace THEN lstrip(Tail(s)) ELSE s

RECURSIVE rstrip(_)
rstrip(s) ==
    IF s # <<>> /\ s[Len(s)] \in Whitespace THEN rstrip(SubSeq(s, 1, Len(s) - 1)) ELSE s

\* str.strip()
strip(s) == rstrip(lstrip(s))

----------------------------------------------------------------------------
(* Comment pool provider *)

\* Text lines of the sample documents (the elements of raw.splitlines())
NoiseLine == <<"1", "2", ".">>
BlankLine == <<" ", "3", ".", " ">>
TextLineA == <<"1", ".", " ", "o", " ", "k", " ">>
TextLineB == <<"o", ".", "k">>
SampleLines == {<<>>, NoiseLine, BlankLine, TextLineA, TextLineB}

\* The sample documents: no line, one line, two lines
SampleDocs ==
    {<<>>} \cup {<<a>> : a \in SampleLines}
           \cup {<<TextLineA, b>> : b \in {NoiseLine, TextLineB}}
           \cup {<<NoiseLine, BlankLine>>}

\* read_comments_from_pdf: have_PyPDF2 is whether the import succeeds, exists
\* whether the file is there, raises whether extraction throws, doc the
\* extracted text lines
read_comments_from_pdf(have_PyPDF2, exists, raises, doc) ==
    IF ~have_PyPDF2 THEN <<>>
    ELSE IF ~exists THEN <<>>
    ELSE IF raises THEN <<>>
    ELSE LET lines == [i \in 1..Len(doc) |-> strip(re_sub_digits_dots(doc[i]))]
         IN  SelectSeq(lines, LAMBDA ln : ln # <<>>)

\* The built-in pool of line 175
DefaultPool == <<
    <<"Great eco concept!">>, <<"Love this design!">>, <<"So inspiring!">>,
    <<"Miyazaki vibes!">>, <<"Very creative!">> >>

\* The fallback testing for None instead of emptiness: never taken
effective_pool_never(p) == p

\* if not pool: pool = [...]
effective_pool(p) == IF Len(p) = 0 THEN DefaultPool ELSE p

----------------------------------------------------------------------------
(* Site renderer *)

\* index.html before the first write
NoArtifact ==
    [file |-> "absent", likes |-> 0, bookmarks |-> 0, shares |-> 0,
     comments |-> 0, heading |-> 0, blocks |-> <<>>]

\* index.html after a write that failed part-way (opened with "w", so emptied)
TruncatedArtifact == [NoArtifact EXCEPT !.file = "truncated"]

\* build_html with the bookmarks and shares chips interchanged
build_html_swapped(totals, render_list) ==
    [file |-> "written",
     likes |-> totals[1], bookmarks |-> totals[3], shares |-> totals[2],
     comments |-> totals[4], heading |-> totals[4],
     blocks |-> [i \in 1..Len(render_list) |->
                   [meta |-> render_list[i][1], user |-> render_list[i][2],
                    text |-> render_list[i][3]]]]

\* build_html: the document text as the values the template interpolates: the
\* four chips, the "Comments (n)" heading and one comment block per element of
\* comments_render, in list order
build_html(totals, render_list) ==
    [file |-> "written",
     likes |-> totals[1], bookmarks |-> totals[2], shares |-> totals[3],
     comments |-> totals[4], heading |-> totals[4],
     blocks |-> [i \in 1..Len(render_list) |->
                   [meta |-> render_list[i][1], user |-> render_list[i][2],
                    text |-> render_list[i][3]]]]

----------------------------------------------------------------------------
(* Random sources *)

\* random.random() in hundredths: samples of [0, 1) around the four thresholds
random_random == {0, 34, 35, 39, 40, 49, 50, 54, 55, 99}

\* random.randint(a, b)
randint(a, b) == a..b

\* random_user_code4(): four letters; the sample alphabet has one letter
SampleLetters == {"Q"}
random_user_code4 == {<<a, b, c, d>> : a \in SampleLetters, b \in SampleLetters,
                                       c \in SampleLetters, d \in SampleLetters}

\* A wait drawn from a range that starts at 0
wait_range_from_zero == randint(0, 300)

\* Line 219: random.randint(5, 300)
wait_range == randint(5, 300)

\* The waits the model draws: the two smallest and the two largest values of
\* the range
SampledWaits ==
    {w \in wait_range :
        \/ Cardinality({v \in wait_range : v < w}) <= 1
        \/ Cardinality({v \in wait_range : v > w}) <= 1}

----------------------------------------------------------------------------
(* Identifier generator: random_realistic_ipv4 *)

\* A candidate table that also offers 172 and 192 as first octets
first_octet_candidates_with_private == <<
    <<3, 5>>, <<13, 3>>, <<172, 1>>, <<192, 1>>, <<216, 1>> >>

\* Lines 47-55: (first octet, weight)
first_octet_candidates == <<
    <<3, 5>>, <<13, 3>>, <<18, 2>>, <<34, 2>>, <<35, 2>>, <<52, 8>>,
    <<54, 4>>, <<66, 2>>, <<69, 3>>, <<70, 2>>, <<99, 1>>,
    <<104, 4>>, <<107, 2>>, <<128, 1>>, <<130, 1>>, <<139, 1>>,
    <<144, 1>>, <<151, 1>>, <<154, 1>>, <<162, 1>>, <<167, 1>>,
    <<184, 1>>, <<185, 1>>, <<193, 1>>, <<195, 1>>, <<199, 1>>,
    <<204, 1>>, <<205, 1>>, <<206, 1>>, <<207, 1>>, <<208, 1>>,
    <<209, 1>>, <<216, 1>> >>

\* random.choices(firsts, weights=weights, k=1)[0]: any first octet whose
\* weight is positive
choices_firsts ==
    {first_octet_candidates[i][1] : i \in {j \in 1..Len(first_octet_candidates) :
                                              first_octet_candidates[j][2] > 0}}

RECURSIVE Pow2(_)
Pow2(n) == IF n = 0 THEN 1 ELSE 2 * Pow2(n - 1)

\* The eight bits of an octet, most significant first
OctetBits(x) == [k \in 1..8 |-> (x \div Pow2(8 - k)) % 2]

\* ipaddress.ip_address("a.b.c.d"): the 32 bits of the address, most
\* significant first
ip_address(o) == OctetBits(o[1]) \o OctetBits(o[2]) \o OctetBits(o[3]) \o OctetBits(o[4])

\* ipaddress.ip_network("a.b.c.d/p")
ip_network(o, p) == [network_address |-> ip_address(o), prefixlen |-> p]

\* Lines 57-63
reserved_nets == <<
    ip_network(<<10, 0, 0, 0>>, 8),
    ip_network(<<172, 16, 0, 0>>, 12),
    ip_network(<<192, 168, 0, 0>>, 16),
    ip_network(<<224, 0, 0, 0>>, 4),
    ip_network(<<240, 0, 0, 0>>, 4) >>

\* address in network: (address & netmask) == network_address, the netmask
\* being prefixlen one-bits followed by zero-bits
in_network(addr, n) ==
    [k \in 1..32 |-> IF k <= n.prefixlen THEN addr[k] ELSE 0] = n.network_address

\* any(ipaddress.ip_address(ip) in n for n in reserved_nets)
any_reserved(o) ==
    LET addr == ip_address(o)
    IN  \E k \in 1..Len(reserved_nets) : in_network(addr, reserved_nets[k])

\* Third and fourth octets the model draws: the ends of their ranges
SampledThird == {0, 255}
SampledFourth == {0, 1, 254, 255}

\* A call of random_realistic_ipv4 begins (line 45): nothing returned yet
random_realistic_ipv4_call ==
    /\ ip # <<>>
    /\ ip' = <<>>
    /\ attempts' = 0
    /\ UNCHANGED <<ctl, pool, engagement, ts, tick0, trials, files, wait>>

\* A version of the generator that draws the first octet like the others
\* and returns without the reserved-block test
random_realistic_ipv4_unfiltered ==
    /\ ip = <<>>
    /\ attempts < MaxAttempts
    /\ attempts' = attempts + 1
    /\ \E first \in {10, 172, 192, 193, 224, 240}, o2 \in {16, 168}, o3 \in {0}, o4 \in {1} :
          ip' = <<first, o2, o3, o4>>
    /\ UNCHANGED <<ctl, pool, engagement, ts, tick0, trials, files, wait>>

\* One iteration of the while loop (lines 64-68): draw the four octets,
\* return the address unless it lies in a reserved network
random_realistic_ipv4 ==
    /\ ip = <<>>
    /\ attempts < MaxAttempts
    /\ attempts' = attempts + 1
    /\ \E first \in choices_firsts,
          o2 \in randint(0, 255),
          o3 \in randint(0, 255) \cap SampledThird,
          o4 \in randint(1, 254) \cap SampledFourth :
          LET cand == <<first, o2, o3, o4>>
          IN  ip' = IF ~any_reserved(cand) THEN cand ELSE <<>>
    /\ UNCHANGED <<ctl, pool, engagement, ts, tick0, trials, files, wait>>

----------------------------------------------------------------------------
(* Control: the try/except of main() *)

\* Statements inside the try block (lines 187-221)
TryBody == {"gen", "ip", "log", "like", "bookmark", "share", "comment",
            "cmt_append", "cmt_file", "render", "wait", "sleep"}

\* A loop that swallows a failed write and goes on with the next tick
Propagate_SwallowOSError(e, at) ==
    IF at \in TryBody /\ e = "KeyboardInterrupt" THEN "stopped"
    ELSE IF at \in TryBody /\ e = "OSError" THEN "gen"
    ELSE "crashed"

\* A handler that catches every exception ("except Exception" or bare except)
Propagate_CatchAll(e, at) ==
    IF at \in TryBody THEN "stopped" ELSE "crashed"

\* Where control goes when exception e is raised at position at: the handler
\* of line 223 catches KeyboardInterrupt raised in the try block and main()
\* returns; anything else leaves main() uncaught
Propagate(e, at) ==
    IF at \in TryBody /\ e = "KeyboardInterrupt" THEN "stopped" ELSE "crashed"

\* raise e at the current statement
Raise(e) ==
    /\ exc' = e
    /\ exc_at' = pc
    /\ pc' = Propagate(e, pc)

Goto(next) == pc' = next /\ UNCHANGED <<exc, exc_at>>

----------------------------------------------------------------------------
(* main() *)

\* No trial of the tick has been made yet
NoTrials == <<"none", "none", "none", "none">>

\* random.random() < p, r and p in hundredths
Trial(r, p) == IF r < p THEN "hit" ELSE "miss"

Init ==
    /\ pc = "startup"
    /\ exc = "None"
    /\ exc_at = "none"
    /\ pool = <<>>
    /\ likes = 0 /\ bookmarks = 0 /\ shares = 0 /\ comments_cnt = 0
    /\ comments_render = <<>>
    /\ ts = 0
    /\ tick0 = <<0, 0, 0, 0, <<>>>>
    /\ trials = NoTrials
    /\ access_log = <<>>
    /\ cmts_used = <<>>
    /\ index_html = NoArtifact
    /\ renders = 0
    /\ wait = 0
    /\ ip = <<>>
    /\ attempts = 0

\* Lines 164-173: directories and image are prepared, then
\* pool = read_comments_from_pdf(pdf_path)
Startup ==
    /\ pc = "startup"
    /\ \E have_PyPDF2 \in BOOLEAN, exists \in BOOLEAN, raises \in BOOLEAN, doc \in SampleDocs :
          pool' = read_comments_from_pdf(have_PyPDF2, exists, raises, doc)
    /\ Goto("pool_check")
    /\ UNCHANGED <<engagement, ts, tick0, trials, files, wait, ipvars>>

\* Lines 174-184: the empty pool is replaced, the counters are zeroed
PoolFallback ==
    /\ pc = "pool_check"
    /\ pool' = effective_pool(pool)
    /\ likes' = 0 /\ bookmarks' = 0 /\ shares' = 0 /\ comments_cnt' = 0
    /\ comments_render' = <<>>
    /\ Goto("gen")
    /\ UNCHANGED <<ts, tick0, trials, files, wait, ipvars>>

\* Lines 165-169: mkdir, copyfile or write_text of the placeholder raises
StartupFail ==
    /\ pc = "startup"
    /\ Raise("OSError")
    /\ UNCHANGED <<pool, engagement, ts, tick0, trials, files, wait, ipvars>>

\* The tick start with the like trial moved ahead of the log append
GenerateEvent_LikeFirst ==
    /\ pc = "gen"
    /\ ts < MaxTicks
    /\ ts' = ts + 1
    /\ tick0' = engagement
    /\ \E r \in random_random :
          /\ likes' = IF r < 55 THEN likes + 1 ELSE likes
          /\ trials' = [NoTrials EXCEPT ![1] = Trial(r, 55)]
    /\ ip' = <<>> /\ attempts' = 0
    /\ Goto("ip")
    /\ UNCHANGED <<pool, bookmarks, shares, comments_cnt, comments_render, files, wait>>

\* A tick that goes on to the trials without drawing an address or writing
\* the access-log line
GenerateEvent_SkipLog ==
    /\ pc = "gen"
    /\ ts < MaxTicks
    /\ ts' = ts + 1
    /\ tick0' = engagement
    /\ trials' = NoTrials
    /\ ip' = <<>> /\ attempts' = 0
    /\ Goto("like")
    /\ UNCHANGED <<pool, engagement, files, wait>>

\* Lines 187-189: the tick starts, the timestamp is taken and
\* random_realistic_ipv4 is called
GenerateEvent ==
    /\ pc = "gen"
    /\ ts < MaxTicks
    /\ ts' = ts + 1
    /\ tick0' = engagement
    /\ trials' = NoTrials
    /\ ip' = <<>> /\ attempts' = 0
    /\ Goto("ip")
    /\ UNCHANGED <<pool, engagement, files, wait>>

\* Octets the main loop draws in its call of random_realistic_ipv4
SampledMainFirst == {193}
SampledMainSecond == {168}
SampledMainThird == {0}
SampledMainFourth == {1}

\* The while loop of random_realistic_ipv4 with the test of line 67 inverted:
\* an address outside the reserved blocks is drawn again
GenerateAddress_RetryUnreserved ==
    /\ pc = "ip"
    /\ attempts < MaxAttempts
    /\ attempts' = attempts + 1
    /\ \E first \in choices_firsts \cap SampledMainFirst,
          o2 \in randint(0, 255) \cap SampledMainSecond,
          o3 \in randint(0, 255) \cap SampledMainThird,
          o4 \in randint(1, 254) \cap SampledMainFourth :
          LET cand == <<first, o2, o3, o4>>
          IN  IF any_reserved(cand)
              THEN ip' = cand /\ Goto("log")
              ELSE ip' = <<>> /\ Goto("ip")
    /\ UNCHANGED <<pool, engagement, ts, tick0, trials, files, wait>>

\* Line 189, lines 64-68: one iteration of the while loop of
\* random_realistic_ipv4 in the tick; on return the user agent, referrer and
\* time string are drawn (lines 190-197)
GenerateAddress ==
    /\ pc = "ip"
    /\ attempts < MaxAttempts
    /\ attempts' = attempts + 1
    /\ \E first \in choices_firsts \cap SampledMainFirst,
          o2 \in randint(0, 255) \cap SampledMainSecond,
          o3 \in randint(0, 255) \cap SampledMainThird,
          o4 \in randint(1, 254) \cap SampledMainFourth :
          LET cand == <<first, o2, o3, o4>>
          IN  IF ~any_reserved(cand)
              THEN ip' = cand /\ Goto("log")
              ELSE ip' = <<>> /\ Goto("ip")
    /\ UNCHANGED <<pool, engagement, ts, tick0, trials, files, wait>>

\* The access-log line of the current tick
LogLine == [tstr |-> ts, newline |-> TRUE]

\* Lines 199-200 with the file opened in mode "w": the log is overwritten
AppendAccessLog_Truncating ==
    /\ pc = "log"
    /\ access_log' = <<LogLine>>
    /\ Goto("like")
    /\ UNCHANGED <<pool, engagement, ts, tick0, trials, cmts_used, index_html, renders, wait, ipvars>>

\* Lines 199-200: the line is appended to access.log
AppendAccessLog ==
    /\ pc = "log"
    /\ access_log' = Append(access_log, LogLine)
    /\ Goto("like")
    /\ UNCHANGED <<pool, engagement, ts, tick0, trials, cmts_used, index_html, renders, wait, ipvars>>

\* Lines 199-200 raise OSError: open failed (nothing written) or the write
\* failed part-way (a line without its newline)
AppendAccessLogFail ==
    /\ pc = "log"
    /\ access_log' \in {access_log, Append(access_log, [LogLine EXCEPT !.newline = FALSE])}
    /\ Raise("OSError")
    /\ UNCHANGED <<pool, engagement, ts, tick0, trials, cmts_used, index_html, renders, wait, ipvars>>

\* Line 203 adding 2 on a hit
Like_AddsTwo ==
    /\ pc = "like"
    /\ \E r \in random_random :
          /\ likes' = IF r < 55 THEN likes + 2 ELSE likes
          /\ trials' = [trials EXCEPT ![1] = Trial(r, 55)]
    /\ Goto("bookmark")
    /\ UNCHANGED <<pool, bookmarks, shares, comments_cnt, comments_render, ts, tick0,
                   files, wait, ipvars>>

\* Line 203
Like ==
    /\ pc = "like"
    /\ \E r \in random_random :
          /\ likes' = IF r < 55 THEN likes + 1 ELSE likes
          /\ trials' = [trials EXCEPT ![1] = Trial(r, 55)]
    /\ Goto("bookmark")
    /\ UNCHANGED <<pool, bookmarks, shares, comments_cnt, comments_render, ts, tick0,
                   files, wait, ipvars>>

\* Line 204
Bookmark ==
    /\ pc = "bookmark"
    /\ \E r \in random_random :
          /\ bookmarks' = IF r < 40 THEN bookmarks + 1 ELSE bookmarks
          /\ trials' = [trials EXCEPT ![2] = Trial(r, 40)]
    /\ Goto("share")
    /\ UNCHANGED <<pool, likes, shares, comments_cnt, comments_render, ts, tick0,
                   files, wait, ipvars>>

\* Line 205 with the comparison inverted: the counter moves on a failed trial
Share_OnMiss ==
    /\ pc = "share"
    /\ \E r \in random_random :
          /\ shares' = IF r >= 35 THEN shares + 1 ELSE shares
          /\ trials' = [trials EXCEPT ![3] = Trial(r, 35)]
    /\ Goto("comment")
    /\ UNCHANGED <<pool, likes, bookmarks, comments_cnt, comments_render, ts, tick0,
                   files, wait, ipvars>>

\* Line 205
Share ==
    /\ pc = "share"
    /\ \E r \in random_random :
          /\ shares' = IF r < 35 THEN shares + 1 ELSE shares
          /\ trials' = [trials EXCEPT ![3] = Trial(r, 35)]
    /\ Goto("comment")
    /\ UNCHANGED <<pool, likes, bookmarks, comments_cnt, comments_render, ts, tick0,
                   files, wait, ipvars>>

\* The comment trial with the increment of line 207 left out
CommentTrial_NoIncrement ==
    /\ pc = "comment"
    /\ \E r \in random_random :
          /\ trials' = [trials EXCEPT ![4] = Trial(r, 50)]
          /\ IF r < 50
             THEN comments_cnt' = comments_cnt /\ Goto("cmt_append")
             ELSE comments_cnt' = comments_cnt /\ Goto("render")
    /\ UNCHANGED <<pool, likes, bookmarks, shares, comments_render, ts, tick0,
                   files, wait, ipvars>>

\* Lines 206-207: the comment trial; on success the counter is incremented
CommentTrial ==
    /\ pc = "comment"
    /\ \E r \in random_random :
          /\ trials' = [trials EXCEPT ![4] = Trial(r, 50)]
          /\ IF r < 50
             THEN comments_cnt' = comments_cnt + 1 /\ Goto("cmt_append")
             ELSE comments_cnt' = comments_cnt /\ Goto("render")
    /\ UNCHANGED <<pool, likes, bookmarks, shares, comments_render, ts, tick0,
                   files, wait, ipvars>>

\* Lines 208-211 with the page rebuilt right after the entry is appended,
\* ahead of the comments_used.txt line
CommentAppend_RenderFirst ==
    /\ pc = "cmt_append"
    /\ Len(pool) > 0
    /\ \E i \in 1..Len(pool), user \in random_user_code4 :
          /\ comments_render' = Append(comments_render, <<ts, user, pool[i]>>)
          /\ index_html' = build_html(<<likes, bookmarks, shares, comments_cnt>>, comments_render')
    /\ renders' = renders + 1
    /\ Goto("cmt_file")
    /\ UNCHANGED <<pool, likes, bookmarks, shares, comments_cnt, ts, tick0, trials,
                   access_log, cmts_used, wait, ipvars>>

\* Lines 208-211 with the entry inserted at the head of the list
CommentAppend_Prepend ==
    /\ pc = "cmt_append"
    /\ Len(pool) > 0
    /\ \E i \in 1..Len(pool), user \in random_user_code4 :
          comments_render' = <<<<ts, user, pool[i]>>>> \o comments_render
    /\ Goto("cmt_file")
    /\ UNCHANGED <<pool, likes, bookmarks, shares, comments_cnt, ts, tick0, trials,
                   files, wait, ipvars>>

\* Lines 208-211 with the tick going straight on to the render, lines 212-213
\* left out
CommentAppend_SkipFile ==
    /\ pc = "cmt_append"
    /\ Len(pool) > 0
    /\ \E i \in 1..Len(pool), user \in random_user_code4 :
          comments_render' = Append(comments_render, <<ts, user, pool[i]>>)
    /\ Goto("render")
    /\ UNCHANGED <<pool, likes, bookmarks, shares, comments_cnt, ts, tick0, trials,
                   files, wait, ipvars>>

\* Lines 208-211 with the counter incremented a second time at the append
CommentAppend_CountsAgain ==
    /\ pc = "cmt_append"
    /\ Len(pool) > 0
    /\ \E i \in 1..Len(pool), user \in random_user_code4 :
          comments_render' = Append(comments_render, <<ts, user, pool[i]>>)
    /\ comments_cnt' = comments_cnt + 1
    /\ Goto("cmt_file")
    /\ UNCHANGED <<pool, likes, bookmarks, shares, ts, tick0, trials,
                   files, wait, ipvars>>

\* Lines 208-211: content and user are drawn, the entry is appended;
\* random.choice raises IndexError on an empty pool
CommentAppend ==
    /\ pc = "cmt_append"
    /\ IF Len(pool) = 0
       THEN Raise("IndexError") /\ UNCHANGED comments_render
       ELSE /\ \E i \in 1..Len(pool), user \in random_user_code4 :
                  comments_render' = Append(comments_render, <<ts, user, pool[i]>>)
            /\ Goto("cmt_file")
    /\ UNCHANGED <<pool, likes, bookmarks, shares, comments_cnt, ts, tick0, trials,
                   files, wait, ipvars>>

\* The comments_used.txt line of the entry just appended
CommentLine == [entry |-> comments_render[Len(comments_render)], newline |-> TRUE]

\* Lines 212-213: the line is appended to comments_used.txt
AppendCommentsUsed ==
    /\ pc = "cmt_file"
    /\ cmts_used' = Append(cmts_used, CommentLine)
    /\ Goto("render")
    /\ UNCHANGED <<pool, engagement, ts, tick0, trials, access_log, index_html, renders, wait, ipvars>>

\* Lines 212-213 raise OSError
AppendCommentsUsedFail ==
    /\ pc = "cmt_file"
    /\ cmts_used' \in {cmts_used, Append(cmts_used, [CommentLine EXCEPT !.newline = FALSE])}
    /\ Raise("OSError")
    /\ UNCHANGED <<pool, engagement, ts, tick0, trials, access_log, index_html, renders, wait, ipvars>>

\* Lines 215-216 and 157: index.html is rewritten from the current state
Render ==
    /\ pc = "render"
    /\ index_html' = build_html(<<likes, bookmarks, shares, comments_cnt>>, comments_render)
    /\ renders' = renders + 1
    /\ Goto("wait")
    /\ UNCHANGED <<pool, engagement, ts, tick0, trials, access_log, cmts_used, wait, ipvars>>

\* Line 157 raises OSError: open failed (old content kept) or the write failed
\* after the file was emptied
RenderFail ==
    /\ pc = "render"
    /\ index_html' \in {index_html, TruncatedArtifact}
    /\ Raise("OSError")
    /\ UNCHANGED <<pool, engagement, ts, tick0, trials, access_log, cmts_used, renders, wait, ipvars>>

\* Lines 219-220: the wait is drawn and reported
DrawWait ==
    /\ pc = "wait"
    /\ wait' \in SampledWaits
    /\ Goto("sleep")
    /\ UNCHANGED <<pool, engagement, ts, tick0, trials, files, ipvars>>

\* Line 221: time.sleep(wait) returns after wait seconds
Sleep ==
    /\ pc = "sleep"
    /\ wait' = 0
    /\ Goto("gen")
    /\ UNCHANGED <<pool, engagement, ts, tick0, trials, files, ipvars>>

\* Ctrl+C with a handler that re-renders the page before main() returns
KeyboardInterrupt_RenderOnExit ==
    /\ pc \in TryBody \cup {"startup", "pool_check"}
    /\ Raise("KeyboardInterrupt")
    /\ index_html' = build_html(<<likes, bookmarks, shares, comments_cnt>>, comments_render)
    /\ renders' = renders + 1
    /\ UNCHANGED <<pool, engagement, ts, tick0, trials, access_log, cmts_used, wait, ipvars>>

\* Ctrl+C: the interpreter raises KeyboardInterrupt at the statement being
\* executed, anywhere in main()
KeyboardInterrupt ==
    /\ pc \in TryBody \cup {"startup", "pool_check"}
    /\ Raise("KeyboardInterrupt")
    /\ UNCHANGED <<pool, engagement, ts, tick0, trials, files, wait, ipvars>>

Next ==
    \/ Startup \/ StartupFail \/ PoolFallback
    \/ GenerateEvent \/ GenerateAddress
    \/ AppendAccessLog \/ AppendAccessLogFail
    \/ Like \/ Bookmark \/ Share
    \/ CommentTrial \/ CommentAppend
    \/ AppendCommentsUsed \/ AppendCommentsUsedFail
    \/ Render \/ RenderFail
    \/ DrawWait \/ Sleep
    \/ KeyboardInterrupt

Spec == Init /\ [][Next]_vars

\* The statements of main() that return normally: the interpreter runs the
\* next statement of the single thread, and time.sleep returns once the wait
\* has elapsed
NormalStep ==
    \/ Startup \/ PoolFallback
    \/ GenerateEvent \/ GenerateAddress
    \/ AppendAccessLog
    \/ Like \/ Bookmark \/ Share
    \/ CommentTrial \/ CommentAppend
    \/ AppendCommentsUsed
    \/ Render
    \/ DrawWait \/ Sleep

\* main() under the scheduling of a running interpreter
SpecLive == Init /\ [][Next]_vars /\ WF_vars(NormalStep)

\* The address generator on its own: calls of random_realistic_ipv4, one
\* after the other
NextIP ==
    \/ random_realistic_ipv4
    \/ random_realistic_ipv4_call

SpecIP == Init /\ [][NextIP]_vars

----------------------------------------------------------------------------
(* Properties *)

\* The control thread is, or was when main() ended, at position p
At(p) == pc = p \/ (pc \in {"stopped", "crashed"} /\ exc_at = p)

\* Between ticks: a tick has completed (render done) and the next has not begun
BetweenTicks == ts > 0 /\ (At("wait") \/ At("sleep") \/ At("gen"))

\* C1: after every completed tick, whatever the trial outcomes, comments_cnt
\* equals the length of comments_render
C1_CountEqualsListAfterTick ==
    BetweenTicks => comments_cnt = Len(comments_render)

C1_Witness ==
    pc = "sleep" /\ ts = 2 /\ comments_cnt = 2 /\ Len(comments_render) = 2

\* C2: no counter ever decreases, and within one tick each of the four
\* counters grows by 0 or by exactly 1 over its value at the start of the tick
C2_CountersMonotoneByOne ==
    /\ [][/\ likes' >= likes /\ bookmarks' >= bookmarks
          /\ shares' >= shares /\ comments_cnt' >= comments_cnt]_vars
    /\ [](/\ likes - tick0[1] \in {0, 1}
          /\ bookmarks - tick0[2] \in {0, 1}
          /\ shares - tick0[3] \in {0, 1}
          /\ comments_cnt - tick0[4] \in {0, 1})

C2_Witness ==
    /\ pc = "sleep" /\ ts = 2
    /\ likes = 2 /\ tick0[1] = 1
    /\ bookmarks = 1 /\ tick0[2] = 1
    /\ shares = 0 /\ comments_cnt = 1

\* C3: whenever index.html has been written for the tick just completed, it
\* holds exactly comments_cnt comment blocks and the four counter values of
\* the in-memory state
C3_ArtifactAgreesWithState ==
    BetweenTicks =>
        /\ index_html.file = "written"
        /\ index_html.likes = likes
        /\ index_html.bookmarks = bookmarks
        /\ index_html.shares = shares
        /\ index_html.comments = comments_cnt
        /\ index_html.heading = comments_cnt
        /\ Len(index_html.blocks) = comments_cnt

C3_Witness ==
    /\ pc = "sleep" /\ ts = 2
    /\ bookmarks = 0 /\ shares = 2 /\ likes = 1 /\ comments_cnt = 1
    /\ index_html.shares = 2 /\ Len(index_html.blocks) = 1

\* C4: in every tick the access-log line is complete in the file before any
\* counter or the comment list differs from its value at the start of the
\* tick; and if the append fails they are as the previous tick left them
C4_LogBeforeStateChange ==
    /\ engagement # tick0 =>
          /\ Len(access_log) = ts
          /\ access_log[ts] = [tstr |-> ts, newline |-> TRUE]
    /\ (exc = "OSError" /\ exc_at = "log") => engagement = tick0

C4_Witness ==
    /\ exc = "OSError" /\ exc_at = "log" /\ ts = 2
    /\ likes = 1 /\ comments_cnt = 1 /\ Len(access_log) = 1

\* C5 as stated: when the scheduler is Stopped, every tick whose access-log
\* line has been written has also been rendered
C5_TickRunsToCompletion ==
    (pc = "stopped" /\ Len(access_log) = ts) => renders = ts

\* C5 amended: an interrupt is honoured at whatever statement of the loop it
\* arrives; a tick interrupted after it started is abandoned there, its
\* render never runs, and nothing runs after Stopped; only an interrupt that
\* arrives between ticks finds every started tick rendered
C5_InterruptAbandonsTick ==
    pc = "stopped" =>
        /\ exc = "KeyboardInterrupt"
        /\ ~ENABLED Next
        /\ renders = IF exc_at \in {"wait", "sleep", "gen"} THEN ts ELSE ts - 1

C5_Witness ==
    /\ pc = "stopped" /\ exc_at = "cmt_append" /\ ts = 2
    /\ Len(access_log) = 2 /\ renders = 1
    /\ comments_cnt = 2 /\ Len(comments_render) = 1

\* C6: after N completed ticks the access log holds exactly N lines, one per
\* tick in tick order, each complete
C6_LogLinesEqualTicks ==
    BetweenTicks =>
        /\ Len(access_log) = ts
        /\ \A i \in 1..Len(access_log) : access_log[i] = [tstr |-> i, newline |-> TRUE]

C6_Witness ==
    pc = "sleep" /\ ts = 2 /\ Len(access_log) = 2

\* C7: a failed write (access log, comment-usage file, artifact, or the
\* startup files) ends the process there: main() is left with the OSError
\* uncaught, the rest of the tick is not run (no render, no wait), and no
\* step, retry or further tick follows
C7_FailedWriteStopsProcess ==
    exc = "OSError" =>
        /\ pc = "crashed"
        /\ ~ENABLED Next
        /\ exc_at \in {"log", "cmt_file", "render"} => (renders = ts - 1 /\ wait = 0)
        /\ exc_at = "log" => (engagement = tick0 /\ Len(cmts_used) = comments_cnt)

C7_Witness ==
    /\ exc = "OSError" /\ exc_at = "cmt_file" /\ ts = 2 /\ pc = "crashed"
    /\ renders = 1 /\ comments_cnt = 2

\* C8 as stated: the loop is ended by nothing but an external cancellation
C8_OnlyCancellationEndsLoop ==
    exc_at \in TryBody => exc = "KeyboardInterrupt"

\* C8 amended: Stopped is reached only by a cancellation raised inside the
\* loop; a failed write inside a tick ends the loop too, but with the error
\* uncaught and without reaching Stopped
C8_StoppedOnlyByCancellation ==
    /\ pc = "stopped" => (exc = "KeyboardInterrupt" /\ exc_at \in TryBody)
    /\ (exc # "None" /\ exc # "KeyboardInterrupt") => pc = "crashed"

C8_Witness ==
    pc = "stopped" /\ exc_at = "sleep" /\ ts = 2

\* C9: the pool the loop uses is never empty and holds no empty string; an
\* empty result of the provider is replaced by the default pool of at least
\* 5 strings; no comment draw fails; the pool does not change after startup
C9_PoolNeverEmpty ==
    /\ []((\E p \in TryBody : At(p)) =>
            (/\ Len(pool) >= 1
             /\ \A i \in 1..Len(pool) : pool[i] # <<>>
             /\ exc # "IndexError"))
    /\ [][/\ (pc = "pool_check" /\ pc' = "gen" /\ Len(pool) = 0) =>
                (pool' = DefaultPool /\ Len(pool') >= 5)
          /\ pc \in TryBody => pool' = pool]_vars

C9_Witness ==
    /\ pool = DefaultPool /\ pc = "sleep"
    /\ Len(comments_render) = 1 /\ comments_render[1][3] = <<"Very creative!">>

\* C10: every address random_realistic_ipv4 returns lies outside 10.0.0.0/8,
\* 172.16.0.0/12, 192.168.0.0/16, 224.0.0.0/4 and 240.0.0.0/4
C10_AddressNotReserved ==
    ip # <<>> =>
        /\ ip[1] # 10
        /\ ~(ip[1] = 172 /\ ip[2] \in 16..31)
        /\ ~(ip[1] = 192 /\ ip[2] = 168)
        /\ ip[1] \notin 224..239
        /\ ip[1] \notin 240..255

C10_Witness ==
    ip = <<193, 168, 255, 254>> /\ attempts = 1

\* C11: in every tick each counter is up by exactly 1 over its value at the
\* start of the tick if its trial succeeded and by 0 if it failed (or has not
\* been made), and the comment list is unchanged unless the comment trial
\* succeeded; outcomes (hit, miss, hit, miss) from the zero state give
\* counters (1, 0, 1, 0) and an empty list
C11_TrialOutcomesDecideTick ==
    LET counters == <<likes, bookmarks, shares, comments_cnt>>
    IN  /\ \A i \in 1..4 : counters[i] - tick0[i] = IF trials[i] = "hit" THEN 1 ELSE 0
        /\ trials[4] # "hit" => comments_render = tick0[5]
        /\ (tick0 = <<0, 0, 0, 0, <<>>>> /\ trials = <<"hit", "miss", "hit", "miss">>) =>
              (counters = <<1, 0, 1, 0>> /\ comments_render = <<>>)

C11_Witness ==
    /\ pc = "wait" /\ ts = 1
    /\ trials = <<"hit", "miss", "hit", "miss">>
    /\ <<likes, bookmarks, shares, comments_cnt>> = <<1, 0, 1, 0>>
    /\ comments_render = <<>>
    /\ index_html.likes = 1 /\ index_html.shares = 1

\* C12: the wait drawn at the end of every tick is an integer from 5 to 300;
\* a tick starts only when no suspension is pending, and a suspension ends
\* only by elapsing (the next tick may start) or by cancellation (Stopped, no
\* further tick)
C12_WaitInRangeBeforeNextTick ==
    /\ [](At("sleep") => wait \in 5..300)
    /\ [][/\ (pc = "wait" /\ pc' = "sleep") => wait' \in 5..300
          /\ ts' # ts => (pc = "gen" /\ wait = 0)
          /\ (pc = "sleep" /\ pc' # "sleep") =>
                \/ pc' = "gen" /\ wait' = 0 /\ exc' = "None"
                \/ pc' = "stopped" /\ exc' = "KeyboardInterrupt" /\ ts' = ts]_vars

C12_Witness ==
    pc = "sleep" /\ wait = 299 /\ ts = 2 /\ renders = 2

\* C13: the durable effects of a tick come in the order access-log append,
\* comment-usage append (only when the comment trial succeeded), artifact
\* write: the log is appended only when every earlier tick has been rendered
\* and its comment line written; the comment-usage file only after the
\* tick's complete log line and before the tick's render; the artifact only
\* after the tick's log line and, if a comment fired, its comment line
C13_EffectsInOrder ==
    [][/\ access_log' # access_log =>
            /\ Len(access_log) = ts - 1 /\ renders = ts - 1
            /\ Len(cmts_used) = comments_cnt /\ engagement = tick0
       /\ cmts_used' # cmts_used =>
            /\ Len(access_log) = ts /\ access_log[ts] = [tstr |-> ts, newline |-> TRUE]
            /\ renders = ts - 1
            /\ trials[4] = "hit" /\ Len(cmts_used) = comments_cnt - 1
            /\ Len(cmts_used') = comments_cnt
       /\ (index_html' # index_html \/ renders' # renders) =>
            /\ Len(access_log) = ts /\ access_log[ts] = [tstr |-> ts, newline |-> TRUE]
            /\ renders = ts - 1
            /\ Len(cmts_used) = comments_cnt
            /\ trials[4] = "hit" => cmts_used[comments_cnt].entry[1] = ts]_vars

C13_Witness ==
    /\ pc = "wait" /\ ts = 2 /\ renders = 2
    /\ Len(access_log) = 2 /\ Len(cmts_used) = 2 /\ cmts_used[2].entry[1] = 2

IsPrefix(s, t) == Len(s) <= Len(t) /\ \A i \in 1..Len(s) : t[i] = s[i]

\* C14: comments_render is append-only: every step leaves the old list as a
\* prefix of the new one, so the list at the start of a tick is a prefix of
\* the list at any later point of it; and the blocks of index.html are the
\* entries of the list in the same oldest-first order (all of them after a
\* completed tick)
C14_RenderListAppendOnly ==
    /\ [][IsPrefix(comments_render, comments_render')]_vars
    /\ [](IsPrefix(tick0[5], comments_render))
    /\ [](/\ Len(index_html.blocks) <= Len(comments_render)
          /\ \A i \in 1..Len(index_html.blocks) :
                index_html.blocks[i] = [meta |-> comments_render[i][1],
                                        user |-> comments_render[i][2],
                                        text |-> comments_render[i][3]]
          /\ BetweenTicks => Len(index_html.blocks) = Len(comments_render))

C14_Witness ==
    /\ pc = "sleep" /\ ts = 2 /\ Len(comments_render) = 2
    /\ comments_render[1][1] = 1 /\ comments_render[2][1] = 2
    /\ Len(index_html.blocks) = 2
    /\ index_html.blocks[1].meta = 1 /\ index_html.blocks[2].meta = 2

\* C15: in a completed tick comments_used.txt has gained exactly one line if
\* the comment trial succeeded and none if it failed, so between ticks it
\* holds comments_cnt lines, the i-th being the line of the i-th entry
\* (a tick starts with as many lines in the file as entries in the list, so
\* the gain of the tick is measured from the list recorded at its start)
C15_OneUsageLinePerComment ==
    /\ [][ts' # ts => Len(cmts_used) = Len(comments_render)]_vars
    /\ [](BetweenTicks =>
            /\ Len(cmts_used) - Len(tick0[5]) = IF trials[4] = "hit" THEN 1 ELSE 0
            /\ Len(cmts_used) = comments_cnt
            /\ \A i \in 1..Len(cmts_used) :
                  cmts_used[i] = [entry |-> comments_render[i], newline |-> TRUE])

C15_Witness ==
    /\ pc = "gen" /\ ts = 2 /\ trials[4] = "miss"
    /\ comments_cnt = 1 /\ Len(cmts_used) = 1 /\ cmts_used[1].entry[1] = 1

\* C16: unless a KeyboardInterrupt arrives or a write fails, main() does not
\* halt: it reaches the loop, every tick that began gets rendered, and every
\* rendered tick is followed by the start of the next one, through address
\* generation and through the sleep (ticks counted up to MaxTicks)
C16_TicksKeepComing ==
    /\ (pc = "startup") ~> (ts = 1 \/ exc # "None")
    /\ \A k \in 1..MaxTicks :
          /\ (ts = k) ~> (renders = k \/ exc # "None")
          /\ k < MaxTicks => ((renders = k) ~> (ts = k + 1 \/ exc # "None"))
    /\ (pc = "ip") ~> (pc = "log" \/ exc # "None")
    /\ (pc = "sleep") ~> (pc = "gen" \/ exc # "None")

C16_Witness ==
    pc = "ip" /\ ts = 2 /\ renders = 1 /\ exc = "None" /\ attempts = 0 /\ wait = 0

\* C17, as stated: comments_cnt equals the length of comments_render in every
\* reachable state, the states between the statements of a tick included
C17_CountEqualsListAlways ==
    comments_cnt = Len(comments_render)

\* C17, amended: comments_cnt equals the length of comments_render in every
\* state except between the increment of line 207 and the append of line
\* 211 (and if main() was stopped there), where it is larger by exactly 1
C17_CountLeadsListByOneInsideComment ==
    comments_cnt - Len(comments_render) = IF At("cmt_append") THEN 1 ELSE 0

C17_Witness ==
    /\ pc = "stopped" /\ exc = "KeyboardInterrupt" /\ exc_at = "cmt_append"
    /\ ts = 2 /\ comments_cnt = 2 /\ Len(comments_render) = 1

\* Complete lines of access.log
LogLinesAppended == Cardinality({i \in 1..Len(access_log) : access_log[i].newline})

\* C18: in every state, Stopped or crashed at any point included, the number
\* of access-log lines appended exceeds the number of renders by 0 or 1
\* (whether or not a partial line of a failed write is counted), and none of
\* the four counters exceeds the number of complete lines
C18_LogLeadsRendersByAtMostOne ==
    /\ LogLinesAppended - renders \in {0, 1}
    /\ Len(access_log) - renders \in {0, 1}
    /\ \A c \in {likes, bookmarks, shares, comments_cnt} : c <= LogLinesAppended

C18_Witness ==
    /\ pc = "crashed" /\ exc = "OSError" /\ exc_at = "cmt_file"
    /\ LogLinesAppended = 2 /\ renders = 1 /\ likes = 2 /\ comments_cnt = 2

\* C19: a call of random_realistic_ipv4 never makes a second pass through
\* its while loop: after the first pass the address is returned, no first
\* octet of the table reaching a reserved block
C19_FirstAttemptReturns ==
    /\ attempts <= 1
    /\ attempts = 1 => ip # <<>>
    /\ choices_firsts \cap ({10, 172, 192} \cup (224..255)) = {}

C19_Witness ==
    ip = <<216, 31, 0, 1>> /\ attempts = 1 /\ pc = "startup"

====
